---- MODULE Spec2Model ----
(***************************************************************************)
(* Factory graph synthesis of du-factory-generator (src/src/factory.ts):   *)
(* buildFactory = synthesis (produce) + handleByproducts +                 *)
(* handleIndustryLinks + sanityCheck, over the graph model of ./graph and  *)
(* the recipe database of ./recipes.                                       *)
(*                                                                         *)
(* Rates are exact rationals <<numerator, denominator>>; the source uses   *)
(* IEEE doubles, so rounding effects of the doubles are outside the model. *)
(***************************************************************************)
EXTENDS Integers, Sequences, FiniteSets, TLC

VARIABLES recipes, requirements, factory, pc, reqIdx, indIdx, run, firstGraph

vars == <<recipes, requirements, factory, pc, reqIdx, indIdx, run, firstGraph>>

(* ----------------------------- bounds ---------------------------------- *)
MaxCount == 2
MaxFab == 76

(* ------------------------ graph module constants ----------------------- *)
MAX_CONTAINER_LINKS == 10
MAX_INDUSTRY_LINKS == 7

(* ------------------------- rational arithmetic ------------------------- *)
RECURSIVE GCD(_, _)
GCD(a, b) == IF b = 0 THEN a ELSE GCD(b, a % b)

Abs(x) == IF x < 0 THEN -x ELSE x

Norm(n, d) ==
    LET g == GCD(Abs(n), Abs(d))
        s == IF d < 0 THEN -1 ELSE 1
    IN  IF n = 0 THEN <<0, 1>> ELSE <<s * (n \div g), s * (d \div g)>>

Rat(n, d) == Norm(n, d)
RAdd(a, b) == Norm(a[1] * b[2] + b[1] * a[2], a[2] * b[2])
RSub(a, b) == Norm(a[1] * b[2] - b[1] * a[2], a[2] * b[2])
RMul(a, b) == Norm(a[1] * b[1], a[2] * b[2])
RLess(a, b) == a[1] * b[2] < b[1] * a[2]
RLeq(a, b) == a[1] * b[2] <= b[1] * a[2]
(* Math.ceil(a / b) for b > 0 *)
RCeilDiv(a, b) == -((-(a[1] * b[2])) \div (a[2] * b[1]))
(* Math.ceil(x / y) and Math.min on integers *)
CeilDiv(x, y) == -((-x) \div y)
Min(x, y) == IF x < y THEN x ELSE y

RECURSIVE RSum(_)
RSum(s) == IF s = <<>> THEN <<0, 1>> ELSE RAdd(Head(s), RSum(Tail(s)))

(* ------------------------- items and recipes --------------------------- *)
Ores == {"O1", "O2", "O3", "O4", "O5", "O6", "O7", "O8", "O9"}
Craftables == {"A", "B", "P", "Q", "R", "W"}
Items == Ores \cup Craftables

isOre(item) == item \in Ores

Ing(i, q) == [item |-> i, quantity |-> q]

(* The recipe databases the runs are checked against.  A is made from ore, *)
(* optionally with byproduct B; B is made from ore or from A; P needs qA   *)
(* of A and one ore; Q needs qB of B; R needs ten P; W needs nine ores.    *)
Database(qA, qB, hasBy, bFromA) ==
    [it \in Craftables |->
        CASE it = "A" -> [product |-> Ing("A", 1), time |-> 1,
                          ingredients |-> <<Ing("O1", 1)>>,
                          byproducts |-> IF hasBy THEN <<Ing("B", 1)>> ELSE <<>>]
          [] it = "B" -> [product |-> Ing("B", 2), time |-> 4,
                          ingredients |-> IF bFromA THEN <<Ing("A", 4)>>
                                                    ELSE <<Ing("O2", 1)>>,
                          byproducts |-> <<>>]
          [] it = "P" -> [product |-> Ing("P", 1), time |-> 1,
                          ingredients |-> <<Ing("A", qA), Ing("O1", 1)>>,
                          byproducts |-> <<>>]
          [] it = "Q" -> [product |-> Ing("Q", 1), time |-> 2,
                          ingredients |-> <<Ing("B", qB)>>,
                          byproducts |-> <<>>]
          [] it = "R" -> [product |-> Ing("R", 1), time |-> 1,
                          ingredients |-> <<Ing("P", 10)>>,
                          byproducts |-> <<>>]
          [] it = "W" -> [product |-> Ing("W", 1), time |-> 1,
                          ingredients |-> <<Ing("O1", 9), Ing("O2", 8), Ing("O3", 7),
                                            Ing("O4", 6), Ing("O5", 5), Ing("O6", 4),
                                            Ing("O7", 3), Ing("O8", 2), Ing("O9", 1)>>,
                          byproducts |-> <<>>]]

(* <<qA, qB, hasBy, bFromA>> of the databases checked *)
Variants ==
    {<<1, 1, FALSE, FALSE>>, <<2, 1, FALSE, FALSE>>, <<11, 1, FALSE, FALSE>>,
     <<22, 1, FALSE, FALSE>>, <<71, 1, FALSE, FALSE>>,
     <<1, 1, TRUE, FALSE>>, <<6, 1, TRUE, FALSE>>, <<11, 1, TRUE, FALSE>>,
     <<1, 11, TRUE, FALSE>>, <<1, 1, TRUE, TRUE>>}

Databases == {Database(v[1], v[2], v[3], v[4]) : v \in Variants}

findRecipe(item) == recipes[item]


(* ------------------------------ graph model ---------------------------- *)
(* Node references: kind "C" container, "I" industry, "T" transfer unit,   *)
(* "TC" transfer container, "O" output node; index in creation order.      *)
Ref(k, i) == [k |-> k, i |-> i]
NoRef == [k |-> "none", i |-> 0]

Contains(s, x) == \E j \in 1..Len(s) : s[j] = x
(* Set.add on an insertion-ordered set *)
SetAdd(s, x) == IF Contains(s, x) THEN s ELSE Append(s, x)
(* Set.delete on an insertion-ordered set *)
SetDelete(s, x) == SelectSeq(s, LAMBDA y : y # x)

EmptyFactory ==
    [containers |-> <<>>, industries |-> <<>>, transferUnits |-> <<>>,
     transferContainers |-> <<>>, outputs |-> <<>>,
     failure |-> "none", culprit |-> NoRef]

createContainer(f, item) ==
    [f EXCEPT !.containers = Append(@,
        [item |-> item, split |-> <<1, 1>>, isSplit |-> FALSE,
         producers |-> <<>>, consumers |-> <<>>])]

createSplitContainer(f, item, split) ==
    [f EXCEPT !.containers = Append(@,
        [item |-> item, split |-> split, isSplit |-> TRUE,
         producers |-> <<>>, consumers |-> <<>>])]

createIndustry(f, item) ==
    [f EXCEPT !.industries = Append(@,
        [item |-> item, inputs |-> <<>>, output |-> NoRef])]

createTransferUnit(f, item) ==
    [f EXCEPT !.transferUnits = Append(@,
        [item |-> item, inputs |-> <<>>, output |-> NoRef])]

createTransferContainer(f, items) ==
    [f EXCEPT !.transferContainers = Append(@,
        [items |-> items, producers |-> <<>>, consumers |-> <<>>])]

createOutput(f, item, rate, maintain) ==
    [f EXCEPT !.outputs = Append(@,
        [item |-> item, rate |-> rate, maintain |-> maintain, producers |-> <<>>])]

(* Registry lookups, in creation order *)
Indices(s, Test(_)) == SelectSeq([j \in 1..Len(s) |-> j], Test)
getContainers(f, item) ==
    Indices(f.containers, LAMBDA j : f.containers[j].item = item)
getTransferUnits(f, item) ==
    Indices(f.transferUnits, LAMBDA j : f.transferUnits[j].item = item)
getTransferContainers(f, itemSet) ==
    Indices(f.transferContainers,
            LAMBDA j : \A k \in 1..Len(f.transferContainers[j].items) :
                           f.transferContainers[j].items[k] \in itemSet)

(* Link counts *)
containerIncomingLinkCount(f, c) == Len(f.containers[c].producers)
containerOutgoingLinkCount(f, c) == Len(f.containers[c].consumers)
industryIncomingLinkCount(f, i) == Len(f.industries[i].inputs)
transferIncomingLinkCount(f, t) == Len(f.transferUnits[t].inputs)

(* Capacity predicates *)
containerCanAddIncomingLinks(f, c, count) ==
    containerIncomingLinkCount(f, c) + count <= MAX_CONTAINER_LINKS
containerCanAddOutgoingLinks(f, c, count) ==
    IF f.containers[c].isSplit
    THEN containerOutgoingLinkCount(f, c) + count <= 1
    ELSE containerOutgoingLinkCount(f, c) + count <= MAX_CONTAINER_LINKS
transferCanAddIncomingLinks(f, t, count) ==
    transferIncomingLinkCount(f, t) + count <= MAX_INDUSTRY_LINKS
transferContainerCanAddIncomingLinks(f, tc, count) ==
    Len(f.transferContainers[tc].producers) + count <= MAX_CONTAINER_LINKS
transferContainerCanAddOutgoingLinks(f, tc, count) ==
    Len(f.transferContainers[tc].consumers) + count <= MAX_CONTAINER_LINKS

canAddIncomingLinks(f, ref, count) ==
    CASE ref.k = "C" -> containerCanAddIncomingLinks(f, ref.i, count)
      [] ref.k = "T" -> transferCanAddIncomingLinks(f, ref.i, count)
      [] ref.k = "TC" -> transferContainerCanAddIncomingLinks(f, ref.i, count)
      [] OTHER -> TRUE
canAddOutgoingLinks(f, ref, count) ==
    CASE ref.k = "C" -> containerCanAddOutgoingLinks(f, ref.i, count)
      [] ref.k = "TC" -> transferContainerCanAddOutgoingLinks(f, ref.i, count)
      [] OTHER -> TRUE

(* the error thrown and the node it is about; the first error stands *)
Fail(f, why, ref) ==
    IF f.failure = "none" /\ why # "none"
    THEN [f EXCEPT !.failure = why, !.culprit = ref]
    ELSE f

addProducer(f, ref, p) ==
    CASE ref.k = "C" -> [f EXCEPT !.containers[ref.i].producers = SetAdd(@, p)]
      [] ref.k = "TC" -> [f EXCEPT !.transferContainers[ref.i].producers = SetAdd(@, p)]
      [] ref.k = "O" -> [f EXCEPT !.outputs[ref.i].producers = SetAdd(@, p)]
addConsumer(f, ref, c) ==
    CASE ref.k = "C" -> [f EXCEPT !.containers[ref.i].consumers = SetAdd(@, c)]
      [] ref.k = "TC" -> [f EXCEPT !.transferContainers[ref.i].consumers = SetAdd(@, c)]

(* A failure (a thrown error) ends every loop that is under way.           *)
(* Link-attach operations: each checks the capacity predicate of the node  *)
(* that receives the link and fails with CapacityExceeded, leaving the     *)
(* graph as it was, when the limit would be violated.  The incoming limit  *)
(* of an industry is not enforced when a link is attached.                 *)
industryOutputTo(f, i, ref) ==
    IF f.failure # "none" THEN f
    ELSE IF ~canAddIncomingLinks(f, ref, 1) THEN Fail(f, "CapacityExceeded", ref)
    ELSE addProducer([f EXCEPT !.industries[i].output = ref], ref, Ref("I", i))

industryTakeFrom(f, i, ref) ==
    IF f.failure # "none" \/ Contains(f.industries[i].inputs, ref) THEN f
    ELSE IF ~canAddOutgoingLinks(f, ref, 1) THEN Fail(f, "CapacityExceeded", ref)
    ELSE addConsumer([f EXCEPT !.industries[i].inputs = Append(@, ref)],
                     ref, Ref("I", i))

transferOutputTo(f, t, ref) ==
    IF f.failure # "none" THEN f
    ELSE IF ~canAddIncomingLinks(f, ref, 1) THEN Fail(f, "CapacityExceeded", ref)
    ELSE addProducer([f EXCEPT !.transferUnits[t].output = ref], ref, Ref("T", t))

transferTakeFrom(f, t, c) ==
    IF f.failure # "none" \/ Contains(f.transferUnits[t].inputs, c) THEN f
    ELSE IF ~transferCanAddIncomingLinks(f, t, 1)
         THEN Fail(f, "CapacityExceeded", Ref("T", t))
    ELSE IF ~containerCanAddOutgoingLinks(f, c, 1)
         THEN Fail(f, "CapacityExceeded", Ref("C", c))
    ELSE addConsumer([f EXCEPT !.transferUnits[t].inputs = Append(@, c)],
                     Ref("C", c), Ref("T", t))

(* ------------------------------- flows --------------------------------- *)
RecipeRate(item) == Rat(findRecipe(item).product.quantity, findRecipe(item).time)

(* quantity per minute of `item` that one industry making `made` consumes *)
IngredientRate(made, item) ==
    LET r == findRecipe(made)
        hits == SelectSeq(r.ingredients, LAMBDA g : g.item = item)
    IN  IF hits = <<>> THEN <<0, 1>> ELSE Rat(hits[1].quantity, r.time)

(* quantity per minute of byproduct `item` that one industry making `made` emits *)
ByproductRate(made, item) ==
    LET r == findRecipe(made)
        hits == SelectSeq(r.byproducts, LAMBDA g : g.item = item)
    IN  IF hits = <<>> THEN <<0, 1>> ELSE Rat(hits[1].quantity, r.time)

Map(s, Op(_)) == [j \in 1..Len(s) |-> Op(s[j])]

(* what a transfer unit moves: for a container of its own item, the demand *)
(* of the industries behind its transfer container, shared evenly between  *)
(* its inputs and scaled by the container's split fraction; for a          *)
(* container of another item, the byproduct the container's industries     *)
(* emit.                                                                   *)
transferDemand(f, t) ==
    LET out == f.transferUnits[t].output
        item == f.transferUnits[t].item
    IN  IF out.k # "TC" THEN <<0, 1>>
        ELSE RSum(Map(f.transferContainers[out.i].consumers,
                      LAMBDA n : IngredientRate(f.industries[n.i].item, item)))

transferGetInput(f, t, c) ==
    IF f.containers[c].item # f.transferUnits[t].item THEN <<0, 1>>
    ELSE RMul(RMul(transferDemand(f, t), Rat(1, Len(f.transferUnits[t].inputs))),
              f.containers[c].split)

byproductSupply(f, c, item) ==
    RSum(Map(f.containers[c].producers,
             LAMBDA p : IF p.k = "I" THEN ByproductRate(f.industries[p.i].item, item)
                                     ELSE <<0, 1>>))

transferGetOutput(f, t) ==
    LET item == f.transferUnits[t].item
    IN  RSum(Map(f.transferUnits[t].inputs,
                 LAMBDA c : IF f.containers[c].item = item
                            THEN transferGetInput(f, t, c)
                            ELSE byproductSupply(f, c, item)))

egress(f, c) ==
    LET node == f.containers[c]
    IN  RSum(Map(node.consumers,
                 LAMBDA n : IF n.k = "I"
                            THEN RMul(IngredientRate(f.industries[n.i].item, node.item),
                                      node.split)
                            ELSE transferGetInput(f, n.i, c)))

(* ore is supplied from outside: an ore container receives what it hands out *)
ingress(f, c) ==
    LET node == f.containers[c]
    IN  IF isOre(node.item) THEN egress(f, c)
        ELSE RSum(Map(node.producers,
                      LAMBDA p : IF p.k = "I" THEN RecipeRate(f.industries[p.i].item)
                                              ELSE transferGetOutput(f, p.i)))


(* --------------------------- produce (synthesis) ----------------------- *)
(* first element of the index sequence s that passes Test, 0 when none does *)
First(s, Test(_)) ==
    LET hits == SelectSeq(s, Test) IN IF hits = <<>> THEN 0 ELSE hits[1]
(* last element of the index sequence s that passes Test, 0 when none does *)
Last(s, Test(_)) ==
    LET hits == SelectSeq(s, Test) IN IF hits = <<>> THEN 0 ELSE hits[Len(hits)]

Result(f, outs) == [f |-> f, outputs |-> outs]

(* lines 71-83: the output containers created when none can be reused *)
RECURSIVE createSplitContainers(_, _, _, _, _, _, _)
createSplitContainers(f, item, i, numContainers, evenLinks, linksRemaining, total) ==
    IF i >= numContainers \/ f.failure # "none" THEN f
    ELSE LET numLinks == Min(evenLinks, linksRemaining)
             split == Rat(numLinks, total)
         IN  createSplitContainers(createSplitContainer(f, item, split), item, i + 1,
                                   numContainers, evenLinks, linksRemaining - numLinks,
                                   total)

newOutputs(f, item, additionalIndustries) ==
    IF additionalIndustries > MAX_CONTAINER_LINKS
    THEN LET numContainers == CeilDiv(additionalIndustries, MAX_CONTAINER_LINKS)
             evenLinks == CeilDiv(additionalIndustries, numContainers)
         IN  Result(createSplitContainers(f, item, 0, numContainers, evenLinks,
                                          additionalIndustries, additionalIndustries),
                    [j \in 1..numContainers |-> Len(f.containers) + j])
    ELSE Result(createContainer(f, item), <<Len(f.containers) + 1>>)

(* line 43 *)
canIncreaseEgress(f, c, rate) ==
    /\ RLess(RAdd(egress(f, c), rate), ingress(f, c))
    /\ containerCanAddOutgoingLinks(f, c, 1)

(* lines 53-55 *)
shortfallIndustries(f, c, item, rate) ==
    RCeilDiv(RSub(RAdd(rate, egress(f, c)), ingress(f, c)), RecipeRate(item))

(* lines 56-59 *)
canAddProducers(f, c, item, rate) ==
    /\ containerCanAddIncomingLinks(f, c, shortfallIndustries(f, c, item, rate))
    /\ containerCanAddOutgoingLinks(f, c, 1)

RECURSIVE produce(_, _, _)
RECURSIVE produceIndustries(_, _, _, _, _)
RECURSIVE buildIngredients(_, _, _, _, _)
RECURSIVE takeFromAll(_, _, _, _)

(* lines 92-94 and 295-297: the industry takes from every returned container *)
takeFromAll(f, industry, inputs, j) ==
    IF j > Len(inputs) \/ f.failure # "none" THEN f
    ELSE takeFromAll(industryTakeFrom(f, industry, Ref("C", inputs[j])),
                     industry, inputs, j + 1)

(* lines 90-95 and 293-298: produce every ingredient and link it *)
buildIngredients(f, industry, ingredients, time, k) ==
    IF k > Len(ingredients) \/ f.failure # "none" THEN f
    ELSE LET r == produce(ingredients[k].item, Rat(ingredients[k].quantity, time), f)
         IN  buildIngredients(takeFromAll(r.f, industry, r.outputs, 1),
                              industry, ingredients, time, k + 1)

(* lines 86-96 *)
produceIndustries(f, item, outputs, i, additionalIndustries) ==
    IF i >= additionalIndustries \/ f.failure # "none" THEN f
    ELSE LET industry == Len(f.industries) + 1
             f1 == industryOutputTo(createIndustry(f, item), industry,
                                    Ref("C", outputs[(i % Len(outputs)) + 1]))
             f2 == buildIngredients(f1, industry, findRecipe(item).ingredients,
                                    findRecipe(item).time, 1)
         IN  produceIndustries(f2, item, outputs, i + 1, additionalIndustries)

(* lines 27-98 *)
produce(item, rate, f) ==
    LET containers == getContainers(f, item)
    IN  IF isOre(item)
        THEN LET c == First(containers, LAMBDA j : containerCanAddOutgoingLinks(f, j, 1))
             IN  IF c # 0 THEN Result(f, <<c>>)
                 ELSE Result(createContainer(f, item), <<Len(f.containers) + 1>>)
        ELSE
        LET c == First(containers, LAMBDA j : canIncreaseEgress(f, j, rate))
        IN  IF c # 0 THEN Result(f, <<c>>)
            ELSE
            LET e == First(containers, LAMBDA j : canAddProducers(f, j, item, rate))
            IN  IF e # 0
                THEN Result(produceIndustries(f, item, <<e>>, 0,
                                              shortfallIndustries(f, e, item, rate)),
                            <<e>>)
                ELSE LET additionalIndustries == RCeilDiv(rate, RecipeRate(item))
                         made == newOutputs(f, item, additionalIndustries)
                     IN  Result(produceIndustries(made.f, item, made.outputs, 0,
                                                  additionalIndustries),
                                made.outputs)


(* ----------------------------- handleByproducts ------------------------ *)
nodeItem(f, ref) ==
    IF ref.k = "I" THEN f.industries[ref.i].item ELSE f.transferUnits[ref.i].item

(* isConsumed with the consumer compared against the container's own item *)
isConsumedOwnItem(f, c, byproductItem) ==
    \E j \in 1..Len(f.containers[c].consumers) :
        nodeItem(f, f.containers[c].consumers[j]) = f.containers[c].item

(* lines 114-119 *)
isConsumed(f, c, byproductItem) ==
    \E j \in 1..Len(f.containers[c].consumers) :
        nodeItem(f, f.containers[c].consumers[j]) = byproductItem

(* lines 122-128: the transfer unit chosen among the existing ones (0: none) *)
pickTransferUnit(f, item) ==
    Last(getTransferUnits(f, item), LAMBDA t : transferCanAddIncomingLinks(f, t, 1))

(* lines 133-139: the output container chosen among the existing ones (0: none) *)
pickOutputContainer(f, item) ==
    Last(getContainers(f, item), LAMBDA j : containerCanAddIncomingLinks(f, j, 1))

(* lines 130-145 *)
newByproductTransfer(f, item) ==
    LET f1 == createTransferUnit(f, item)
        transfer == Len(f.transferUnits) + 1
        output == pickOutputContainer(f1, item)
        f2 == IF output = 0 THEN createContainer(f1, item) ELSE f1
        out == IF output = 0 THEN Len(f1.containers) + 1 ELSE output
    IN  transferOutputTo(f2, transfer, Ref("C", out))

(* lines 113-147, for one byproduct of one container *)
handleByproduct(f, c, item) ==
    IF isConsumed(f, c, item) THEN f
    ELSE LET transfer == pickTransferUnit(f, item)
         IN  IF transfer # 0 THEN transferTakeFrom(f, transfer, c)
             ELSE transferTakeFrom(newByproductTransfer(f, item),
                                   Len(f.transferUnits) + 1, c)

RECURSIVE handleContainerByproducts(_, _, _, _)
handleContainerByproducts(f, c, byproducts, k) ==
    IF k > Len(byproducts) \/ f.failure # "none" THEN f
    ELSE handleContainerByproducts(handleByproduct(f, c, byproducts[k].item),
                                   c, byproducts, k + 1)

(* lines 104-150; the loop also visits the containers the pass creates *)
RECURSIVE handleByproductsFrom(_, _)
handleByproductsFrom(f, c) ==
    IF c > Len(f.containers) \/ f.failure # "none" THEN f
    ELSE IF isOre(f.containers[c].item) THEN handleByproductsFrom(f, c + 1)
    ELSE handleByproductsFrom(
             handleContainerByproducts(f, c,
                 findRecipe(f.containers[c].item).byproducts, 1),
             c + 1)

handleByproducts(f) == handleByproductsFrom(f, 1)

(* ---------------------------- handleIndustryLinks ---------------------- *)
(* Array.prototype.sort with (a, b) => a.quantity - b.quantity: stable *)
RECURSIVE insertByQuantity(_, _)
insertByQuantity(sorted, x) ==
    IF sorted = <<>> THEN <<x>>
    ELSE IF sorted[Len(sorted)].quantity <= x.quantity THEN Append(sorted, x)
    ELSE Append(insertByQuantity(SubSeq(sorted, 1, Len(sorted) - 1), x),
                sorted[Len(sorted)])

RECURSIVE sortByQuantity(_)
sortByQuantity(s) ==
    IF s = <<>> THEN <<>>
    ELSE insertByQuantity(sortByQuantity(SubSeq(s, 1, Len(s) - 1)), s[Len(s)])

Range(s) == {s[j] : j \in 1..Len(s)}

(* lines 175-191 *)
transferContainerQualifies(f, tc, exceedingLinks) ==
    /\ Len(f.transferContainers[tc].items) >= exceedingLinks + 1
    /\ transferContainerCanAddOutgoingLinks(f, tc, 1)
    /\ \A j \in 1..Len(f.transferContainers[tc].producers) :
           canAddIncomingLinks(f, f.transferContainers[tc].producers[j], 1)

(* lines 204-207 *)
RECURSIVE addTransferUnits(_, _, _, _)
addTransferUnits(f, tc, items, k) ==
    IF k > Len(items) \/ f.failure # "none" THEN f
    ELSE addTransferUnits(
             transferOutputTo(createTransferUnit(f, items[k]),
                              Len(f.transferUnits) + 1, Ref("TC", tc)),
             tc, items, k + 1)

(* lines 198-208 *)
newTransferContainer(f, ingredients, exceedingLinks) ==
    LET items == SubSeq(ingredients, 1, Min(exceedingLinks + 1, Len(ingredients)))
    IN  addTransferUnits(createTransferContainer(f, items),
                         Len(f.transferContainers) + 1, items, 1)

(* lines 214-225: the industry's first direct input container of the item *)
directInput(f, industry, item) ==
    LET hits == SelectSeq(f.industries[industry].inputs,
                          LAMBDA r : r.k = "C" /\ f.containers[r.i].item = item)
    IN  IF hits = <<>> THEN 0 ELSE hits[1].i

(* lines 219-221 *)
relink(f, industry, c, t) ==
    transferTakeFrom(
        [f EXCEPT !.containers[c].consumers = SetDelete(@, Ref("I", industry)),
                  !.industries[industry].inputs = SetDelete(@, Ref("C", c))],
        t, c)

(* lines 212-231 *)
RECURSIVE replaceLinks(_, _, _, _)
replaceLinks(f, industry, producers, k) ==
    IF k > Len(producers) \/ f.failure # "none" THEN f
    ELSE LET t == producers[k].i
             c == directInput(f, industry, f.transferUnits[t].item)
         IN  IF c = 0 THEN Fail(f, "Unable to transfer item", Ref("I", industry))
             ELSE replaceLinks(relink(f, industry, c, t), industry, producers, k + 1)

(* lines 167-235, for one industry *)
resolveIndustry(f, industry, ingredients) ==
    LET exceedingLinks == industryIncomingLinkCount(f, industry) - MAX_INDUSTRY_LINKS
    IN  IF exceedingLinks <= 0 THEN f
        ELSE LET found == First(getTransferContainers(f, Range(ingredients)),
                                LAMBDA tc : transferContainerQualifies(f, tc, exceedingLinks))
                 f1 == IF found = 0
                       THEN newTransferContainer(f, ingredients, exceedingLinks)
                       ELSE f
                 tc == IF found = 0 THEN Len(f.transferContainers) + 1 ELSE found
                 f2 == replaceLinks(f1, industry, f1.transferContainers[tc].producers, 1)
             IN  industryTakeFrom(f2, industry, Ref("TC", tc))

(* lines 161-164: the recipe's own ingredient array is sorted in place *)
sortIngredients(db, item) ==
    [db EXCEPT ![item].ingredients = sortByQuantity(@)]

(* lines 157-237; s = [f, db] *)
RECURSIVE handleIndustryLinksFrom(_, _)
handleIndustryLinksFrom(s, industry) ==
    IF industry > Len(s.f.industries) \/ s.f.failure # "none" THEN s
    ELSE LET item == s.f.industries[industry].item
             db == sortIngredients(s.db, item)
             ingredients == Map(db[item].ingredients, LAMBDA g : g.item)
         IN  handleIndustryLinksFrom(
                 [f |-> resolveIndustry(s.f, industry, ingredients), db |-> db],
                 industry + 1)

handleIndustryLinks(f, db) == handleIndustryLinksFrom([f |-> f, db |-> db], 1)

(* ------------------------------- sanityCheck --------------------------- *)
(* lines 247-262, for one container: the first error raised, or "none" *)
containerError(f, c) ==
    IF containerIncomingLinkCount(f, c) > MAX_CONTAINER_LINKS
    THEN "Container exceeds incoming link limit"
    ELSE IF containerOutgoingLinkCount(f, c) > MAX_CONTAINER_LINKS
    THEN "Container exceeds outgoing link limit"
    ELSE IF RLess(ingress(f, c), egress(f, c))
    THEN "Container egress exceeds ingress"
    ELSE IF f.containers[c].isSplit /\ containerOutgoingLinkCount(f, c) > 1
    THEN "Split container has more than one outgoing link"
    ELSE "none"

(* lines 244-271 *)
sanityCheck(f) ==
    LET badC == First([j \in 1..Len(f.containers) |-> j],
                      LAMBDA c : containerError(f, c) # "none")
        badI == First([j \in 1..Len(f.industries) |-> j],
                      LAMBDA i : industryIncomingLinkCount(f, i) > MAX_INDUSTRY_LINKS)
    IN  IF badC # 0 THEN Fail(f, containerError(f, badC), Ref("C", badC))
        ELSE IF badI # 0
        THEN Fail(f, "Industry exceeds incoming link limit", Ref("I", badI))
        ELSE f


(* ------------------------- graph shape of a result --------------------- *)
(* What two results are compared by: the node counts and, for every        *)
(* container, its item, its split fraction and how many producers and      *)
(* consumers of each kind and item it has.  Node numbering plays no part.  *)
refShape(f, ref) ==
    IF ref.k = "TC" THEN <<"TC", "">>
    ELSE IF ref.k = "O" THEN <<"O", f.outputs[ref.i].item>>
    ELSE <<ref.k, nodeItem(f, ref)>>

ShapeBag(f, refs) ==
    LET shapes == {refShape(f, refs[j]) : j \in 1..Len(refs)}
    IN  [sh \in shapes |-> Cardinality({j \in 1..Len(refs) : refShape(f, refs[j]) = sh})]

containerShape(f, c) ==
    [item |-> f.containers[c].item, split |-> f.containers[c].split,
     producers |-> ShapeBag(f, f.containers[c].producers),
     consumers |-> ShapeBag(f, f.containers[c].consumers)]

graphShape(f) ==
    LET cs == {containerShape(f, c) : c \in 1..Len(f.containers)}
    IN  [containers |-> Len(f.containers), industries |-> Len(f.industries),
         transferUnits |-> Len(f.transferUnits),
         transferContainers |-> Len(f.transferContainers),
         outputs |-> Len(f.outputs),
         links |-> [sh \in cs |->
                       Cardinality({c \in 1..Len(f.containers) :
                                       containerShape(f, c) = sh})]]

(* ------------------------------ buildFactory --------------------------- *)
TopItems == {"P", "Q", "R", "B", "W"}

Requirement(item, count) == [item |-> item, count |-> count, maintain |-> 0]

Requirements == {Requirement(it, c) : it \in TopItems, c \in 1..MaxCount}

(* requirement maps of one or two items, in iteration order *)
RequirementLists ==
    {<<r>> : r \in Requirements}
    \cup {<<r[1], r[2]>> : r \in {q \in Requirements \X Requirements :
                                      q[1].item # q[2].item}}

(* industries one unit of a requirement can need, from the recipe quantities *)
UnitFab(db, item) ==
    CASE item = "P" -> 1 + db["P"].ingredients[1].quantity
      [] item = "R" -> 1 + 10 * (1 + db["P"].ingredients[1].quantity)
      [] item = "Q" -> 1 + db["Q"].ingredients[1].quantity
      [] item = "B" -> 2
      [] OTHER -> 1

RECURSIVE FabDemand(_, _)
FabDemand(db, rs) ==
    IF rs = <<>> THEN 0
    ELSE rs[1].count * UnitFab(db, rs[1].item) + FabDemand(db, Tail(rs))

Init ==
    /\ recipes \in Databases
    /\ requirements \in {rs \in RequirementLists : FabDemand(recipes, rs) <= MaxFab}
    /\ factory = EmptyFactory
    /\ pc = "requirement"
    /\ reqIdx = 1
    /\ indIdx = 0
    /\ run = 1
    /\ firstGraph = "none"

(* lines 282-286: the next requirement's output node *)
CreateOutput ==
    /\ pc = "requirement"
    /\ LET req == requirements[reqIdx]
           recipe == findRecipe(req.item)
           rate == Rat(recipe.product.quantity, recipe.time)
       IN  factory' = createOutput(factory, req.item, RMul(rate, Rat(req.count, 1)),
                                   req.maintain)
    /\ pc' = "industry"
    /\ indIdx' = 0
    /\ UNCHANGED <<recipes, requirements, reqIdx, run, firstGraph>>

(* lines 288-299: one industry of the requirement and all it depends on *)
buildIndustry(f, req) ==
    LET recipe == findRecipe(req.item)
        industry == Len(f.industries) + 1
        f1 == industryOutputTo(createIndustry(f, req.item), industry,
                               Ref("O", Len(f.outputs)))
    IN  buildIngredients(f1, industry, recipe.ingredients, recipe.time, 1)

BuildIndustry ==
    /\ pc = "industry"
    /\ LET req == requirements[reqIdx]
           f == buildIndustry(factory, req)
           lastOfReq == indIdx + 1 >= req.count
       IN  /\ factory' = f
           /\ indIdx' = IF lastOfReq THEN 0 ELSE indIdx + 1
           /\ reqIdx' = IF lastOfReq THEN reqIdx + 1 ELSE reqIdx
           /\ pc' = IF f.failure # "none" THEN "failed"
                    ELSE IF ~lastOfReq THEN "industry"
                    ELSE IF reqIdx < Len(requirements) THEN "requirement"
                    ELSE "byproducts"
    /\ UNCHANGED <<recipes, requirements, run, firstGraph>>

(* line 302 *)
HandleByproducts ==
    /\ pc = "byproducts"
    /\ factory' = handleByproducts(factory)
    /\ pc' = IF factory'.failure # "none" THEN "failed" ELSE "links"
    /\ UNCHANGED <<recipes, requirements, reqIdx, indIdx, run, firstGraph>>

(* line 304 *)
HandleIndustryLinks ==
    /\ pc = "links"
    /\ LET s == handleIndustryLinks(factory, recipes)
       IN  /\ factory' = s.f
           /\ recipes' = s.db
    /\ pc' = IF factory'.failure # "none" THEN "failed" ELSE "check"
    /\ UNCHANGED <<requirements, reqIdx, indIdx, run, firstGraph>>

(* lines 306-307 *)
SanityCheck ==
    /\ pc = "check"
    /\ factory' = sanityCheck(factory)
    /\ pc' = IF factory'.failure # "none" THEN "failed" ELSE "done"
    /\ UNCHANGED <<recipes, requirements, reqIdx, indIdx, run, firstGraph>>

(* buildFactory called again in the same process with the same requirements: *)
(* a new FactoryGraph (line 281), the recipe database as the first run left it *)
BuildFactoryAgain ==
    /\ pc = "done"
    /\ run = 1
    /\ firstGraph' = graphShape(factory)
    /\ factory' = EmptyFactory
    /\ pc' = "requirement"
    /\ reqIdx' = 1
    /\ indIdx' = 0
    /\ run' = 2
    /\ UNCHANGED <<recipes, requirements>>

Next ==
    \/ CreateOutput
    \/ BuildIndustry
    \/ HandleByproducts
    \/ HandleIndustryLinks
    \/ SanityCheck
    \/ BuildFactoryAgain

Spec == Init /\ [][Next]_vars


(* -------------------------------- properties --------------------------- *)
Containers == 1..Len(factory.containers)
Industries == 1..Len(factory.industries)
TransferUnits == 1..Len(factory.transferUnits)
SplitContainers == {c \in Containers : factory.containers[c].isSplit}

(* C1 - flow conservation: after the synthesis phase, after handleByproducts *)
(* and after handleIndustryLinks no container hands out more than it        *)
(* receives.                                                                *)
FlowConservation ==
    pc \in {"byproducts", "links", "check"} =>
        \A c \in Containers : RLeq(egress(factory, c), ingress(factory, c))

(* C2 - fabrication capacity: when handleIndustryLinks has run, no industry *)
(* has more than MAX_INDUSTRY_LINKS incoming links.                         *)
FabricationCapacity ==
    pc = "check" =>
        \A i \in Industries :
            industryIncomingLinkCount(factory, i) <= MAX_INDUSTRY_LINKS

(* C3 - storage capacity: no container ever has more than                   *)
(* MAX_CONTAINER_LINKS incoming or outgoing links, and no link is attached  *)
(* to a container whose capacity predicate does not hold, so no attach is   *)
(* refused by a container that is full.                                     *)
StorageCapacity ==
    /\ \A c \in Containers :
          /\ containerIncomingLinkCount(factory, c) <= MAX_CONTAINER_LINKS
          /\ containerOutgoingLinkCount(factory, c) <= MAX_CONTAINER_LINKS
    /\ ~(/\ factory.failure = "CapacityExceeded"
         /\ factory.culprit.k = "C"
         /\ ~factory.containers[factory.culprit.i].isSplit)

(* C4 - split exclusivity: at the end of every pass a split container has   *)
(* exactly one outgoing link, and no pass tries to give a split container   *)
(* a second one.                                                            *)
SplitExclusivity ==
    /\ pc \in {"byproducts", "links", "check", "done"} =>
          \A c \in SplitContainers : containerOutgoingLinkCount(factory, c) = 1
    /\ ~(/\ factory.failure = "CapacityExceeded"
         /\ factory.culprit.k = "C"
         /\ factory.containers[factory.culprit.i].isSplit)

(* a transfer unit for `item` that takes from container c and outputs to a  *)
(* container of `item`                                                      *)
TakenAway(f, c, item) ==
    \E j \in 1..Len(f.containers[c].consumers) :
        LET ref == f.containers[c].consumers[j]
        IN  /\ ref.k = "T"
            /\ f.transferUnits[ref.i].item = item
            /\ f.transferUnits[ref.i].output.k = "C"
            /\ f.containers[f.transferUnits[ref.i].output.i].item = item

(* C5 - byproduct closure: when handleByproducts has finished, every        *)
(* byproduct of every non-ore container's recipe is taken away from the     *)
(* container by a transfer unit for the byproduct.                          *)
ByproductClosure ==
    pc = "links" =>
        \A c \in Containers :
            ~isOre(factory.containers[c].item) =>
                \A k \in 1..Len(findRecipe(factory.containers[c].item).byproducts) :
                    TakenAway(factory, c,
                              findRecipe(factory.containers[c].item).byproducts[k].item)

(* C6 - idempotent reconciliation: handleByproducts run again on the graph  *)
(* it has just reconciled leaves the graph as it is.                        *)
IdempotentReconciliation ==
    pc = "links" => handleByproducts(factory) = factory

(* a reconciled graph in which the pass wired byproducts through two units *)
ReconciledTwoTransferUnits ==
    /\ pc = "links"
    /\ Len(factory.transferUnits) >= 2
    /\ \A t \in TransferUnits : factory.transferUnits[t].inputs # <<>>

(* C7 - determinism: the second buildFactory of a process, given the same   *)
(* requirements, returns a graph of the same shape as the first.            *)
Determinism ==
    (run = 2 /\ pc = "done") => graphShape(factory) = firstGraph

(* the split containers made by the produce call that made c: same item,   *)
(* same consumer                                                           *)
SplitGroup(c) ==
    {d \in SplitContainers :
        /\ factory.containers[d].item = factory.containers[c].item
        /\ factory.containers[d].consumers = factory.containers[c].consumers}

GroupIndustries(c) ==
    Cardinality({<<d, j>> \in SplitGroup(c) \X (1..MAX_CONTAINER_LINKS) :
                    j <= containerIncomingLinkCount(factory, d)})

(* C8 - split partition: during synthesis every split container carries at  *)
(* most MAX_CONTAINER_LINKS industries, its split fraction is the share of  *)
(* its group's n industries attached to it, and the group has               *)
(* ceil(n / MAX_CONTAINER_LINKS) containers.                                *)
SplitPartition ==
    pc \in {"requirement", "industry", "byproducts"} =>
        \A c \in SplitContainers :
            LET n == GroupIndustries(c)
            IN  /\ n > MAX_CONTAINER_LINKS
                /\ containerIncomingLinkCount(factory, c) <= MAX_CONTAINER_LINKS
                /\ Cardinality(SplitGroup(c)) = CeilDiv(n, MAX_CONTAINER_LINKS)
                /\ factory.containers[c].split =
                       Rat(containerIncomingLinkCount(factory, c), n)

(* the transfer container created for industry i: an input of i of which i *)
(* is the first consumer (0 when there is none)                            *)
CreatedFor(f, i) ==
    LET hits == SelectSeq(f.industries[i].inputs,
                          LAMBDA r : r.k = "TC"
                                     /\ f.transferContainers[r.i].consumers[1] = Ref("I", i))
    IN  IF hits = <<>> THEN 0 ELSE hits[1].i

(* C9 - creation case of handleIndustryLinks: an industry e > 0 links over  *)
(* the limit for which a transfer container is created gets one of exactly  *)
(* the e+1 ingredients of lowest quantity, one transfer unit per item, and  *)
(* ends with e links fewer; "Unable to transfer item" is never raised.      *)
RelayStorageCreation ==
    [][(pc = "links" /\ pc' # "links") =>
          /\ factory'.failure # "Unable to transfer item"
          /\ \A i \in Industries :
                LET e == industryIncomingLinkCount(factory, i) - MAX_INDUSTRY_LINKS
                    tc == CreatedFor(factory', i)
                    sorted == sortByQuantity(recipes[factory.industries[i].item].ingredients)
                IN  (e > 0 /\ tc # 0) =>
                        /\ Len(factory'.transferContainers[tc].items) = e + 1
                        /\ factory'.transferContainers[tc].items =
                               [k \in 1..(e + 1) |-> sorted[k].item]
                        /\ Len(factory'.transferContainers[tc].producers) = e + 1
                        /\ industryIncomingLinkCount(factory', i) =
                               industryIncomingLinkCount(factory, i) - e
      ]_vars

(* C10 - first fit in handleByproducts: the container a transfer unit       *)
(* outputs to has no earlier container of the same item with room for an    *)
(* incoming link, and no transfer unit of the same item created earlier     *)
(* still has room when a later one exists.                                  *)
FirstFitByproducts ==
    pc = "links" =>
        \A t \in TransferUnits :
            LET out == factory.transferUnits[t].output
            IN  /\ out.k = "C" =>
                      \A o \in 1..(out.i - 1) :
                          factory.containers[o].item = factory.containers[out.i].item
                              => ~containerCanAddIncomingLinks(factory, o, 1)
                /\ \A u \in 1..(t - 1) :
                      factory.transferUnits[u].item = factory.transferUnits[t].item
                          => ~transferCanAddIncomingLinks(factory, u, 1)

====
